---------------------------- MODULE Spec2Model ----------------------------
(***************************************************************************)
(* A model of src/data_utils.py: the dataset-assembly pipeline that turns  *)
(* per-case tables into graph records.                                     *)
(*                                                                         *)
(*   - add_2hop_edges          (SpecHop)                                   *)
(*   - save_norm_params / get_xyz_and_uvp_mins  (SpecRoundTrip)            *)
(*   - make_dist_map           (SpecDist)                                  *)
(*   - calc_norm_params        (SpecNorm)                                  *)
(*   - make_dataset            (Spec, SpecFeat)                            *)
(*                                                                         *)
(* Numbers: table cells are integers.  A value produced by torch.div or    *)
(* torch.mean is kept as an unreduced fraction <<n, d>>; d = 0 stands for  *)
(* the non-finite result (nan, inf) of a float division by zero.           *)
(***************************************************************************)
EXTENDS Integers, Sequences, FiniteSets, TLC

VARIABLES
    \* add_2hop_edges
    hopPc, hopN, hopAdds, hopEdgeIndex, hopOut,
    \* save_norm_params / get_xyz_and_uvp_mins
    rtPc, rtArgs, rtFile, rtLoaded,
    \* make_dist_map
    dmPc, dmRaw, dmDim, dmOut,
    \* calc_norm_params
    cnPc, cnCount, cnAcc,
    \* make_dataset: its arguments, the data directory, the directory as it
    \* was when the call started, and the call's own state
    args, disk, start, pc, file_list, norm, idx, data_list, hop2_nodes, outcome, calls

hopVars == <<hopPc, hopN, hopAdds, hopEdgeIndex, hopOut>>
rtVars == <<rtPc, rtArgs, rtFile, rtLoaded>>
dmVars == <<dmPc, dmRaw, dmDim, dmOut>>
cnVars == <<cnPc, cnCount, cnAcc>>
mkVars == <<args, disk, start, pc, file_list, norm, idx, data_list, hop2_nodes,
            outcome, calls>>
vars == <<hopVars, rtVars, dmVars, cnVars, mkVars>>

-----------------------------------------------------------------------------
(* Each specification runs one component; the others' variables rest.      *)

HopIdle ==
    /\ hopPc = "idle"
    /\ hopN = 0
    /\ hopEdgeIndex = <<>>
    /\ hopAdds = <<>>
    /\ hopOut = <<>>

NotLoaded ==
    [err |-> "unset", xy_mins |-> <<>>, xy_maxs |-> <<>>,
     uvp_mins |-> <<>>, uvp_maxs |-> <<>>]

RtIdle ==
    /\ rtPc = "idle"
    /\ rtArgs = [geom_in_dim |-> 2, out_dim |-> 3, domain_min |-> <<>>,
                 domain_max |-> <<>>, stat1 |-> <<>>, stat2 |-> <<>>]
    /\ rtFile = <<>>
    /\ rtLoaded = NotLoaded

DmIdle ==
    /\ dmPc = "idle"
    /\ dmRaw = <<>>
    /\ dmDim = <<>>
    /\ dmOut = [err |-> "unset", val |-> <<>>]

CnIdle ==
    /\ cnPc = "idle"
    /\ cnCount = 0
    /\ cnAcc = [domain_boundaries_min |-> <<>>, domain_boundaries_max |-> <<>>,
                min_value |-> <<>>, max_value |-> <<>>]

NoNorm ==
    [dom_bound_min |-> <<>>, dom_bound_max |-> <<>>, flownorm1 |-> <<>>,
     flownorm2 |-> <<>>, range_xy |-> <<>>, range_flow |-> <<>>]

NoOutcome == [returned |-> FALSE, data |-> <<>>, error |-> "none"]

MkIdle ==
    /\ pc = "idle"
    /\ args = <<>>
    /\ disk = <<>>
    /\ start = <<>>
    /\ file_list = <<>>
    /\ norm = NoNorm
    /\ idx = 0
    /\ data_list = <<>>
    /\ hop2_nodes = <<>>
    /\ outcome = NoOutcome
    /\ calls = {}

-----------------------------------------------------------------------------
(* Generic helpers *)

Range(s) == {s[i] : i \in 1..Len(s)}

Max2(a, b) == IF a >= b THEN a ELSE b
Min2(a, b) == IF a <= b THEN a ELSE b
Abs(a) == IF a < 0 THEN -a ELSE a

-----------------------------------------------------------------------------
(* add_2hop_edges (src/data_utils.py:138-145)                              *)
(* edge_index is the list of (source, destination) columns of the 2 x E    *)
(* matrix; nodes are 0..N-1.                                               *)

MaxN == 4
MaxAdds == 3

NodeIds(N) == 0..(N - 1)

\* to_torch_csr_tensor(edge_index, size=(N, N)): the index is coalesced
\* (sorted, duplicates merged) and every stored entry has value 1.
to_torch_csr_tensor(edge_index, N) ==
    [i \in NodeIds(N) |-> [j \in NodeIds(N) |->
        IF <<i, j>> \in Range(edge_index) THEN 1 ELSE 0]]

RECURSIVE DotRowCol(_, _, _, _, _)
DotRowCol(A, B, i, j, k) ==
    IF k < 0 THEN 0 ELSE A[i][k] * B[k][j] + DotRowCol(A, B, i, j, k - 1)

\* torch.matrix_power(adj, 2): adj @ adj.
matrix_power2(adj, N) ==
    [i \in NodeIds(N) |-> [j \in NodeIds(N) |-> DotRowCol(adj, adj, i, j, N - 1)]]

\* to_edge_index(sparse): the index pairs of the stored (nonzero) entries,
\* in row-major order.
RECURSIVE NonZeroFrom(_, _, _)
NonZeroFrom(M, N, pos) ==
    IF pos >= N * N THEN <<>>
    ELSE LET i == pos \div N
             j == pos % N
         IN (IF M[i][j] # 0 THEN << <<i, j>> >> ELSE <<>>) \o NonZeroFrom(M, N, pos + 1)

to_edge_index(M, N) == NonZeroFrom(M, N, 0)

IsNotLoop(e) == e[1] # e[2]

RemoveSelfLoopsKeepAll(edges) == edges

\* remove_self_loops(edge_index): drops the columns with source = destination.
remove_self_loops(edges) == SelectSeq(edges, IsNotLoop)

add_2hop_edges(edge_index, N) ==
    LET adj == to_torch_csr_tensor(edge_index, N)
        k_hop_edges == to_edge_index(matrix_power2(adj, N), N)
    IN remove_self_loops(k_hop_edges)

\* Input lists are built by at most MaxAdds additions, each of one directed
\* edge (i, j) or of an undirected edge as the two columns (i, j), (j, i).
\* Additions come in increasing key order (to_torch_csr_tensor sorts the
\* index anyway); the same column can still be listed twice, once by a
\* directed and once by an undirected addition.
AddKey(i, j, both) == (i * MaxN + j) * 2 + (IF both THEN 1 ELSE 0)

HopInit ==
    /\ hopPc = "input"
    /\ hopN \in 1..MaxN
    /\ hopEdgeIndex = <<>>
    /\ hopAdds = <<>>
    /\ hopOut = <<>>

HopAddEdge ==
    /\ hopPc = "input"
    /\ Len(hopAdds) < MaxAdds
    /\ \E i \in NodeIds(hopN), j \in NodeIds(hopN), both \in BOOLEAN :
          /\ both => i < j
          /\ IF hopAdds = <<>> THEN TRUE
             ELSE AddKey(i, j, both) > hopAdds[Len(hopAdds)]
          /\ hopAdds' = Append(hopAdds, AddKey(i, j, both))
          /\ hopEdgeIndex' = hopEdgeIndex \o
                (IF both THEN << <<i, j>>, <<j, i>> >> ELSE << <<i, j>> >>)
    /\ UNCHANGED <<hopPc, hopN, hopOut, rtVars, dmVars, cnVars, mkVars>>

HopCall ==
    /\ hopPc = "input"
    /\ hopOut' = add_2hop_edges(hopEdgeIndex, hopN)
    /\ hopPc' = "done"
    /\ UNCHANGED <<hopN, hopAdds, hopEdgeIndex, rtVars, dmVars, cnVars, mkVars>>

HopNext == HopAddEdge \/ HopCall

InitHop == HopInit /\ RtIdle /\ DmIdle /\ CnIdle /\ MkIdle

SpecHop == InitHop /\ [][HopNext]_vars

\* The pairs joined by a walk of length two in the 1-hop edge set E.
TwoWalks(E, N) ==
    {<<i, j>> \in NodeIds(N) \X NodeIds(N) :
        i # j /\ \E k \in NodeIds(N) : <<i, k>> \in E /\ <<k, j>> \in E}

PathGraph4 == {<<0, 1>>, <<1, 0>>, <<1, 2>>, <<2, 1>>, <<2, 3>>, <<3, 2>>}

\* C3: add_2hop_edges returns exactly the pairs (i, j), i # j, joined by a
\* walk of length two: no self-loop, no other pair, no pair twice, and the
\* 1-hop edges are not added; on the 4-node path graph given in both
\* directions the result is (0,2), (2,0), (1,3), (3,1).
C3_TwoHopExact ==
    hopPc = "done" =>
        /\ Range(hopOut) = TwoWalks(Range(hopEdgeIndex), hopN)
        /\ Cardinality(Range(hopOut)) = Len(hopOut)
        /\ (hopN = 4 /\ Range(hopEdgeIndex) = PathGraph4) =>
              Range(hopOut) = {<<0, 2>>, <<2, 0>>, <<1, 3>>, <<3, 1>>}

\* The 4-node path graph, whose squared adjacency has the diagonal entries
\* (0,0) .. (3,3): the call has returned the four 2-hop pairs.
C3_Witness ==
    /\ hopPc = "done"
    /\ hopN = 4
    /\ Range(hopEdgeIndex) = PathGraph4
    /\ Len(hopOut) = 4

-----------------------------------------------------------------------------
(* The normalization parameter file                                        *)
(* (save_norm_params, src/data_utils.py:98-112; get_xyz_and_uvp_mins,      *)
(* src/data_utils.py:72-95).                                               *)
(* A text is a sequence of tokens.  The characters the reader's pattern    *)
(* and the number syntax tell apart are one token each: "[", ",", "]",     *)
(* "\n", "-", ".", and the digits.  A run of other characters (a label) is *)
(* one token.                                                              *)

DigitChars == <<"0", "1", "2", "3", "4", "5", "6", "7", "8", "9">>

RECURSIVE Digits(_)
Digits(n) ==
    IF n < 10 THEN <<DigitChars[n + 1]>>
    ELSE Digits(n \div 10) \o <<DigitChars[(n % 10) + 1]>>

\* f'{t[i]}' of a 0-dim tensor: the item's float repr.  The model's floats
\* are integer-valued: "-12.0".
FormatFloat(v) ==
    (IF v < 0 THEN <<"-">> ELSE <<>>) \o Digits(Abs(v)) \o <<".", "0">>

DigitVal(c) == CHOOSE d \in 0..9 : DigitChars[d + 1] = c

RECURSIVE DigitsValue(_)
DigitsValue(ds) ==
    IF ds = <<>> THEN 0
    ELSE DigitsValue(SubSeq(ds, 1, Len(ds) - 1)) * 10 + DigitVal(ds[Len(ds)])

\* The first position of token c in s, 0 when absent.
RECURSIVE IndexFrom(_, _, _)
IndexFrom(s, c, i) ==
    IF i > Len(s) THEN 0 ELSE IF s[i] = c THEN i ELSE IndexFrom(s, c, i + 1)

\* float(text) of an optional sign, integer digits, and a fraction of zeros.
ParseFloat(t) ==
    LET neg == t # <<>> /\ t[1] = "-"
        body == IF neg THEN SubSeq(t, 2, Len(t)) ELSE t
        dot == IndexFrom(body, ".", 1)
        int == IF dot = 0 THEN body ELSE SubSeq(body, 1, dot - 1)
    IN (IF neg THEN -1 ELSE 1) * DigitsValue(int)

NormLine(label, a, b) ==
    <<label, "[">> \o FormatFloat(a) \o <<",">> \o FormatFloat(b) \o <<"]", "\n">>

\* save_norm_params: the text written to save_path.  print() ends it with
\* one more "\n".
save_norm_params(geom_in_dim, out_dim, domain_boundaries_min, domain_boundaries_max, min_value, max_value) ==
    <<"The ", "[", "min", ",", " max", "]", " values for:", "\n">>
    \o NormLine("\tx-coordinates: ", domain_boundaries_min[1], domain_boundaries_max[1])
    \o NormLine("\ty-coordinates: ", domain_boundaries_min[2], domain_boundaries_max[2])
    \o (IF geom_in_dim = 3
        THEN NormLine("\tz-coordinates: ", domain_boundaries_min[3], domain_boundaries_max[3])
        ELSE <<>>)
    \o NormLine("\tu            : ", min_value[1], max_value[1])
    \o NormLine("\tv            : ", min_value[2], max_value[2])
    \o NormLine("\tp            : ", min_value[3], max_value[3])
    \o (IF out_dim > 3
        THEN NormLine("\tt            : ", min_value[4], max_value[4])
        ELSE <<>>)
    \o <<"\n">>

\* Iterating an open text file: the lines, each with its "\n".
RECURSIVE FileLines(_, _)
FileLines(text, cur) ==
    IF text = <<>> THEN (IF cur = <<>> THEN <<>> ELSE <<cur>>)
    ELSE IF text[1] = "\n" THEN <<Append(cur, "\n")>> \o FileLines(Tail(text), <<>>)
    ELSE FileLines(Tail(text), Append(cur, text[1]))

\* The positions of token c in line that lie before its "\n" (the pattern's
\* "." does not match a newline).
Positions(line, c) ==
    LET nl == IndexFrom(line, "\n", 1)
        end == IF nl = 0 THEN Len(line) ELSE nl - 1
    IN {i \in 1..end : line[i] = c}

SetMax(S) == CHOOSE m \in S : \A x \in S : x <= m

\* re.compile('.*\[(.*),(.*)\]').match(line): greedy, so the last "[" that
\* still leaves a "," and a "]" after it, then the last such ",", then the
\* last "]".  [ok |-> FALSE] is the None of a line that does not match.
PatternMatch(line) ==
    LET closes == Positions(line, "]")
        commas == {c \in Positions(line, ",") : \E r \in closes : r > c}
        opens == {o \in Positions(line, "[") : \E c \in commas : c > o}
    IN IF opens = {} THEN [ok |-> FALSE, g1 |-> <<>>, g2 |-> <<>>]
       ELSE LET o == SetMax(opens)
                c == SetMax({x \in commas : x > o})
                r == SetMax(closes)
            IN [ok |-> TRUE, g1 |-> SubSeq(line, o + 1, c - 1),
                g2 |-> SubSeq(line, c + 1, r - 1)]

DropLast(s) == IF s = <<>> THEN <<>> ELSE SubSeq(s, 1, Len(s) - 1)

GeomLines(lines) == SubSeq(lines, 1, Min2(2, Len(lines)))

\* get_xyz_and_uvp_mins: the header line is skipped, the last line dropped,
\* lines[:2] feed the xy vectors and lines[2:] the uvp vectors.  A line that
\* does not match makes res None, and res.group raises.
get_xyz_and_uvp_mins(text) ==
    LET all == FileLines(text, <<>>)
        lines == DropLast(IF all = <<>> THEN <<>> ELSE Tail(all))
        geom == GeomLines(lines)
        rest == SubSeq(lines, Len(geom) + 1, Len(lines))
        Mins(ls) == [i \in 1..Len(ls) |-> ParseFloat(PatternMatch(ls[i]).g1)]
        Maxs(ls) == [i \in 1..Len(ls) |-> ParseFloat(PatternMatch(ls[i]).g2)]
    IN IF \E i \in 1..Len(lines) : ~PatternMatch(lines[i]).ok
       THEN [err |-> "AttributeError", xy_mins |-> <<>>, xy_maxs |-> <<>>,
             uvp_mins |-> <<>>, uvp_maxs |-> <<>>]
       ELSE [err |-> "none", xy_mins |-> Mins(geom), xy_maxs |-> Maxs(geom),
             uvp_mins |-> Mins(rest), uvp_maxs |-> Maxs(rest)]

\* Inputs: vectors base, base + step, base + 2 step, ... whose components
\* differ, so that a component read into the wrong place shows.
MaxVal == 1
VecSteps == {1, 10}
Vec(n, base, step) == [i \in 1..n |-> base + (i - 1) * step]
Vectors(n) == {Vec(n, b, st) : b \in (-MaxVal)..MaxVal, st \in VecSteps}

RtInit ==
    /\ rtPc = "input"
    /\ \E g \in {2, 3}, o \in {3, 4} :
          rtArgs \in [geom_in_dim : {g}, out_dim : {o},
                      domain_min : Vectors(g), domain_max : Vectors(g),
                      stat1 : Vectors(o), stat2 : Vectors(o)]
    /\ rtFile = <<>>
    /\ rtLoaded = NotLoaded

RtSave ==
    /\ rtPc = "input"
    /\ rtFile' = save_norm_params(rtArgs.geom_in_dim, rtArgs.out_dim,
                                  rtArgs.domain_min, rtArgs.domain_max,
                                  rtArgs.stat1, rtArgs.stat2)
    /\ rtPc' = "saved"
    /\ UNCHANGED <<rtArgs, rtLoaded, hopVars, dmVars, cnVars, mkVars>>

RtLoad ==
    /\ rtPc = "saved"
    /\ rtLoaded' = get_xyz_and_uvp_mins(rtFile)
    /\ rtPc' = "loaded"
    /\ UNCHANGED <<rtArgs, rtFile, hopVars, dmVars, cnVars, mkVars>>

RtNext == RtSave \/ RtLoad

InitRoundTrip == RtInit /\ HopIdle /\ DmIdle /\ CnIdle /\ MkIdle

SpecRoundTrip == InitRoundTrip /\ [][RtNext]_vars

\* C2: for geom_in_dim in {2,3} and out_dim in {3,4}, reading back what
\* save_norm_params wrote returns the four saved vectors, component by
\* component, geometry in the first pair and flow fields in the second.
C2_RoundTrip ==
    rtPc = "loaded" =>
        /\ rtLoaded.err = "none"
        /\ rtLoaded.xy_mins = rtArgs.domain_min
        /\ rtLoaded.xy_maxs = rtArgs.domain_max
        /\ rtLoaded.uvp_mins = rtArgs.stat1
        /\ rtLoaded.uvp_maxs = rtArgs.stat2

\* The part of C2 the code keeps: with two geometry axes the round trip is
\* exact.
C2_RoundTrip2D ==
    (rtPc = "loaded" /\ rtArgs.geom_in_dim = 2) =>
        /\ rtLoaded.err = "none"
        /\ rtLoaded.xy_mins = rtArgs.domain_min
        /\ rtLoaded.xy_maxs = rtArgs.domain_max
        /\ rtLoaded.uvp_mins = rtArgs.stat1
        /\ rtLoaded.uvp_maxs = rtArgs.stat2

-----------------------------------------------------------------------------
(* Node tables and make_dist_map (src/data_utils.py:115-135, 202-207).     *)
(* A table is a sequence of rows, a row a sequence of cells; column c of   *)
(* the source (0-based) is cell c + 1.                                     *)

RawSentinel == -50
Sentinel == -5

\* pd.read_csv(...).replace(-50, -5): every cell equal to -50, in any column.
ReplaceSentinel(table) ==
    [i \in 1..Len(table) |->
        [c \in 1..Len(table[i]) |->
            IF table[i][c] = RawSentinel THEN Sentinel ELSE table[i][c]]]

\* nodes.iloc[:, :nodes_dim]; nodes_dim is <<>> for None, <<k>> for k >= 0.
TruncateColumns(table, nodes_dim) ==
    IF nodes_dim = <<>> THEN table
    ELSE [i \in 1..Len(table) |->
             SubSeq(table[i], 1, Min2(nodes_dim[1], Len(table[i])))]

\* Lines 202-204 of make_dataset: the node table as make_dist_map receives it.
LoadNodes(raw, nodes_dim) == TruncateColumns(ReplaceSentinel(raw), nodes_dim)

\* cdist(..., 'chebyshev') of two points.
Chebyshev(p, q) == Max2(Abs(p[1] - q[1]), Abs(p[2] - q[2]))

SetMin(S) == CHOOSE m \in S : \A x \in S : m <= x

\* np.sum(np.equal(nodes[:, 3:], -5), axis=1) of one row.
RowSum(row) == Cardinality({c \in 4..Len(row) : row[c] = Sentinel})

\* np.not_equal(row_sum, 4): 1 means boundary point.
BcIndx(row) == IF RowSum(row) # 4 THEN 1 ELSE 0

\* make_dist_map(nodes).  upd_nodes[node_idx][7] raises IndexError on a row
\* of fewer than 8 cells; np.min of the empty cdist result raises ValueError.
make_dist_map(nodes) ==
    LET upd_nodes == [i \in 1..Len(nodes) |-> Append(nodes[i], BcIndx(nodes[i]))]
        bc_points_xy ==
            {SubSeq(upd_nodes[i], 1, 2) :
                i \in {k \in 1..Len(nodes) : upd_nodes[k][Len(upd_nodes[k])] = 1}}
        Dist(i) ==
            IF upd_nodes[i][8] = 1 THEN 0
            ELSE SetMin({Chebyshev(SubSeq(upd_nodes[i], 1, 2), q) : q \in bc_points_xy})
    IN IF \E i \in 1..Len(nodes) : Len(upd_nodes[i]) < 8
       THEN [err |-> "IndexError", val |-> <<>>]
       ELSE IF bc_points_xy = {} /\ \E i \in 1..Len(nodes) : upd_nodes[i][8] # 1
       THEN [err |-> "ValueError", val |-> <<>>]
       ELSE [err |-> "none",
             val |-> [i \in 1..Len(nodes) |-> Append(upd_nodes[i], Dist(i))]]

\* Inputs: rows x, y, domain indicator, four boundary-condition channels and,
\* in an 8-column table, one more column.
MaxCoord == 1
MaxRows == 3
BcPatterns ==
    {<<RawSentinel, RawSentinel, RawSentinel, RawSentinel>>,
     <<0, RawSentinel, RawSentinel, RawSentinel>>,
     <<1, 1, 1, 1>>}
ExtraCells == {RawSentinel, 1}
RawRows(width) ==
    {<<x, y, 0>> \o bc \o (IF width = 8 THEN <<e>> ELSE <<>>) :
        x \in 0..MaxCoord, y \in 0..MaxCoord, bc \in BcPatterns, e \in ExtraCells}

DmInit ==
    /\ dmPc = "input"
    /\ dmRaw = <<>>
    /\ dmDim \in {<<>>, <<5>>, <<7>>}
    /\ dmOut = [err |-> "unset", val |-> <<>>]

DmAddRow ==
    /\ dmPc = "input"
    /\ Len(dmRaw) < MaxRows
    /\ \E w \in {7, 8} :
          /\ dmRaw # <<>> => Len(dmRaw[1]) = w
          /\ \E row \in RawRows(w) : dmRaw' = Append(dmRaw, row)
    /\ UNCHANGED <<dmPc, dmDim, dmOut, hopVars, rtVars, cnVars, mkVars>>

\* The node table is loaded and, with add_dist_func, handed to make_dist_map.
DmCall ==
    /\ dmPc = "input"
    /\ dmOut' = make_dist_map(LoadNodes(dmRaw, dmDim))
    /\ dmPc' = "done"
    /\ UNCHANGED <<dmRaw, dmDim, hopVars, rtVars, cnVars, mkVars>>

DmNext == DmAddRow \/ DmCall

InitDist == DmInit /\ HopIdle /\ RtIdle /\ CnIdle /\ MkIdle

SpecDist == InitDist /\ [][DmNext]_vars

\* A boundary node: not all four boundary-condition channels (columns 3..6)
\* equal the sentinel.
IsBoundary(row) == \E c \in 4..7 : c > Len(row) \/ row[c] # Sentinel

BoundaryPoints(nodes) ==
    {SubSeq(nodes[i], 1, 2) : i \in {k \in 1..Len(nodes) : IsBoundary(nodes[k])}}

DistMapAsClaimed(nodes, out) ==
    /\ out.err = "none"
    /\ Len(out.val) = Len(nodes)
    /\ \A i \in 1..Len(nodes) :
          LET w == Len(nodes[i])
              row == out.val[i]
          IN /\ Len(row) = w + 2
             /\ SubSeq(row, 1, w) = nodes[i]
             /\ row[w + 1] = (IF IsBoundary(nodes[i]) THEN 1 ELSE 0)
             /\ IsBoundary(nodes[i]) => row[w + 2] = 0
             /\ (~IsBoundary(nodes[i]) /\ BoundaryPoints(nodes) # {}) =>
                   row[w + 2] = SetMin({Chebyshev(SubSeq(nodes[i], 1, 2), q) :
                                           q \in BoundaryPoints(nodes)})

\* C4: for every node table, make_dist_map appends a flag that is 1 iff the
\* node is a boundary node and a distance that is 0 on boundary nodes and the
\* least Chebyshev distance to a boundary node elsewhere; for every column
\* count and for tables with no boundary node.
C4_DistMap ==
    dmPc = "done" => DistMapAsClaimed(LoadNodes(dmRaw, dmDim), dmOut)

\* What the code keeps of C4: on 7-column tables with a boundary node.
C4_DistMapSevenColumns ==
    (/\ dmPc = "done"
     /\ \A i \in 1..Len(dmRaw) : Len(LoadNodes(dmRaw, dmDim)[i]) = 7
     /\ BoundaryPoints(LoadNodes(dmRaw, dmDim)) # {})
    => DistMapAsClaimed(LoadNodes(dmRaw, dmDim), dmOut)

-----------------------------------------------------------------------------
(* Cases and calc_norm_params (src/data_utils.py:18-41).                   *)
(* A case is the tables of one file name: nodes (7 columns), flow          *)
(* (num_fields columns) and edges (rows of two node indices).              *)

num_fields == 4
geom_dim == 2

MaxFlow == 1

\* Inputs: a three-node path 0 - 1 - 2.  Node 0 is a boundary node (its first
\* boundary-condition channel is set), nodes 1 and 2 are interior.  The third
\* flow column is positive and the fourth negative in every row.
CaseOf(x0, x1, y1, f) ==
    [nodes |-> << <<x0, 0, 0, f, RawSentinel, RawSentinel, RawSentinel>>,
                  <<x1, y1, 0, RawSentinel, RawSentinel, RawSentinel, RawSentinel>>,
                  <<0, y1, 0, RawSentinel, RawSentinel, RawSentinel, RawSentinel>> >>,
     flow |-> << <<f, -f, f + 2, f - 2>>,
                 <<-f, f, 2 - f, (-2) - f>>,
                 <<0, 0, 2, -2>> >>,
     edges |-> << <<0, 1>>, <<1, 0>>, <<1, 2>>, <<2, 1>> >>]

CaseKinds ==
    {CaseOf(x0, x1, y1, f) :
        x0 \in (-MaxCoord)..MaxCoord, x1 \in (-MaxCoord)..MaxCoord,
        y1 \in (-MaxCoord)..MaxCoord, f \in (-MaxFlow)..MaxFlow}

\* torch.min(table[:, :width], 0) and torch.max(table[:, :width], 0).
ColMin(table, width) ==
    [c \in 1..width |-> SetMin({table[r][c] : r \in 1..Len(table)})]
ColMax(table, width) ==
    [c \in 1..width |-> SetMax({table[r][c] : r \in 1..Len(table)})]

\* torch.minimum / torch.maximum, element-wise.
Minimum(a, b) == [c \in 1..Len(a) |-> Min2(a[c], b[c])]
Maximum(a, b) == [c \in 1..Len(a) |-> Max2(a[c], b[c])]

Zeros(n) == [c \in 1..n |-> 0]

\* Lines 21-25: the accumulators before the first case.
NormSeed ==
    [domain_boundaries_min |-> Zeros(geom_dim), domain_boundaries_max |-> Zeros(geom_dim),
     min_value |-> Zeros(num_fields), max_value |-> Zeros(num_fields)]

NormStepMinFromMax(acc, nodes, flow) ==
    [domain_boundaries_min |-> Minimum(acc.domain_boundaries_min, ColMin(nodes, 2)),
     domain_boundaries_max |-> Maximum(acc.domain_boundaries_max, ColMax(nodes, 2)),
     min_value |-> Maximum(acc.min_value, ColMin(flow, num_fields)),
     max_value |-> Maximum(acc.max_value, ColMax(flow, num_fields))]

\* Lines 28-39: one pass of the loop over file_list.
NormStep(acc, nodes, flow) ==
    [domain_boundaries_min |-> Minimum(acc.domain_boundaries_min, ColMin(nodes, 2)),
     domain_boundaries_max |-> Maximum(acc.domain_boundaries_max, ColMax(nodes, 2)),
     min_value |-> Minimum(acc.min_value, ColMin(flow, num_fields)),
     max_value |-> Maximum(acc.max_value, ColMax(flow, num_fields))]

\* calc_norm_params over the cases of a file list.
RECURSIVE calc_norm_params(_)
calc_norm_params(cases) ==
    IF cases = <<>> THEN NormSeed
    ELSE LET last == cases[Len(cases)]
         IN NormStep(calc_norm_params(DropLast(cases)), last.nodes, last.flow)

\* calc_norm_params step by step; each pass reads the next case's tables.
MaxCases == 3

CnInit ==
    /\ cnPc = "loop"
    /\ cnCount = 0
    /\ cnAcc = NormSeed

CnStep ==
    /\ cnPc = "loop"
    /\ cnCount < MaxCases
    /\ \E case \in CaseKinds : cnAcc' = NormStep(cnAcc, case.nodes, case.flow)
    /\ cnCount' = cnCount + 1
    /\ UNCHANGED <<cnPc, hopVars, rtVars, dmVars, mkVars>>

CnReturn ==
    /\ cnPc = "loop"
    /\ cnPc' = "returned"
    /\ UNCHANGED <<cnCount, cnAcc, hopVars, rtVars, dmVars, mkVars>>

CnNext == CnStep \/ CnReturn

InitNorm == CnInit /\ HopIdle /\ RtIdle /\ DmIdle /\ MkIdle

SpecNorm == InitNorm /\ [][CnNext]_vars

LeqVec(a, b) == \A c \in 1..Len(a) : a[c] <= b[c]

\* C8: calc_norm_params keeps domain_min <= domain_max and flow_min <=
\* flow_max element-wise, for every file list (the empty one included), and
\* each case only widens the running bounds: the minimum never rises and the
\* maximum never falls.
C8_BoundsOrderedAndWiden ==
    /\ [](/\ LeqVec(cnAcc.domain_boundaries_min, cnAcc.domain_boundaries_max)
          /\ LeqVec(cnAcc.min_value, cnAcc.max_value))
    /\ [][/\ LeqVec(cnAcc.domain_boundaries_min', cnAcc.domain_boundaries_min)
          /\ LeqVec(cnAcc.domain_boundaries_max, cnAcc.domain_boundaries_max')
          /\ LeqVec(cnAcc.min_value', cnAcc.min_value)
          /\ LeqVec(cnAcc.max_value, cnAcc.max_value')]_vars

\* Returned after several cases, with a bound that a case moved and one (the
\* all-positive third flow column's minimum) that stays at the zero seed.
C8_Witness ==
    /\ cnPc = "returned"
    /\ cnCount >= 2
    /\ cnAcc.min_value[1] < 0
    /\ cnAcc.min_value[3] = 0
    /\ cnAcc.max_value[3] > 0
    /\ cnAcc.max_value[4] = 0
    /\ cnAcc.domain_boundaries_min[1] < 0

-----------------------------------------------------------------------------
(* Paths: a name is a sequence of characters.                              *)

data_dir == <<"d", "a", "t", "a">>
EdgesDirName == <<"e", "d", "g", "e", "s">>
NodesDirName == <<"n", "o", "d", "e", "s">>
FlowDirName == <<"f", "l", "o", "w">>
NormPrmsSuffix == <<"_", "n", "o", "r", "m", "_", "p", "r", "m", "s", ".", "t", "x", "t">>

\* os.path.join of two components.
PathJoin2(a, b) ==
    IF b # <<>> /\ b[1] = "/" THEN b
    ELSE IF a = <<>> \/ a[Len(a)] = "/" THEN a \o b
    ELSE a \o <<"/">> \o b

PathJoin3(a, b, c) == PathJoin2(PathJoin2(a, b), c)

LastIndexOf(s, c) ==
    LET hits == {i \in 1..Len(s) : s[i] = c}
    IN IF hits = {} THEN 0 ELSE SetMax(hits)

\* os.path.splitext(p)[0]: p up to the last "." of its last component, unless
\* that component has only leading dots before it.
SplitextRoot(p) ==
    LET sep == LastIndexOf(p, "/")
        dot == LastIndexOf(p, ".")
    IN IF dot > sep + 1 /\ \E i \in (sep + 1)..(dot - 1) : p[i] # "."
       THEN SubSeq(p, 1, dot - 1)
       ELSE p

\* dataset_name_n + '_norm_prms.txt' (lines 175-176, 188-189): the file's
\* name inside data_dir.
NormPrmsName(dataset_name) == SplitextRoot(dataset_name) \o NormPrmsSuffix

\* Whether the parameter file of a dataset name is among the directory's entries.
NormFileExists(dataset_name, listing) == NormPrmsName(dataset_name) \in listing

\* Line 174: os.path.join(data_dir, dataset_name, '_norm_prms.txt') in
\* os.listdir(data_dir).  listing is os.listdir(data_dir): entry names.
CacheHit(dataset_name, listing) ==
    PathJoin3(data_dir, dataset_name, NormPrmsSuffix) \in listing

-----------------------------------------------------------------------------
(* make_dataset (src/data_utils.py:157-275), called with avstd=False,      *)
(* with_bc=False, nodes_dim=None and num_fields=4.  Of the record's fields *)
(* the model keeps x, edge_index, edge_attr, flow and hop2_nodes; the      *)
(* per-node copies of the auxiliary tables (u_in1, v_in2, ObjectCoord,     *)
(* VentCoord) and the cells are read and attached unchanged.               *)

\* A table of raw cells as float values <<n, 1>>.
ToFrac(table) ==
    [r \in 1..Len(table) |-> [c \in 1..Len(table[r]) |-> <<table[r][c], 1>>]]

\* The mean of two values.
Mean2(a, b) == <<a[1] * b[2] + b[1] * a[2], 2 * a[2] * b[2]>>

\* torch.mean(nodes[edges], 1): per edge, the mean of its two endpoint rows.
EdgeFeats(x, edges) ==
    [e \in 1..Len(edges) |->
        [c \in 1..Len(x[edges[e][1] + 1]) |->
            Mean2(x[edges[e][1] + 1][c], x[edges[e][2] + 1][c])]]

RangeXy(dom_bound_min, dom_bound_max) ==
    [c \in 1..Len(dom_bound_max) |-> dom_bound_max[c] - dom_bound_min[c]]

RangeFlowAsStd(flownorm1, flownorm2) == flownorm2

\* Lines 193-195 with avstd=False: torch.sub(flownorm2, flownorm1).
RangeFlow(flownorm1, flownorm2) ==
    [c \in 1..Len(flownorm2) |-> flownorm2[c] - flownorm1[c]]

ShiftScaleNoShift(v, lo, range) == <<v, range>>

\* torch.div(torch.sub(v, lo), range) of one cell.
ShiftScale(v, lo, range) == <<v - lo, range>>

\* Lines 248-256: the node features after coordinate normalization.
NormalizeNodes(nodes, nrm, bc_in_nodes_norm) ==
    [r \in 1..Len(nodes) |->
        [c \in 1..Len(nodes[r]) |->
            IF c <= 2 THEN ShiftScale(nodes[r][c], nrm.dom_bound_min[c], nrm.range_xy[c])
            ELSE IF bc_in_nodes_norm /\ c >= 4 /\ c <= 7
            THEN ShiftScale(nodes[r][c], nrm.flownorm1[c - 3], nrm.range_flow[c - 3])
            ELSE <<nodes[r][c], 1>>]]

\* Line 261: torch.div(torch.sub(flow, flownorm1), range_flow).
NormalizeFlow(flow, nrm) ==
    [r \in 1..Len(flow) |->
        [c \in 1..Len(flow[r]) |-> ShiftScale(flow[r][c], nrm.flownorm1[c], nrm.range_flow[c])]]

EdgeFeatsNotRecomputed(before, after, edges, norm_coord) == EdgeFeats(before, edges)

\* Lines 217 and 258: edge_feats, computed from the node features and computed
\* again once norm_coord has replaced them.
FinalEdgeFeats(before, after, edges, norm_coord) ==
    IF norm_coord THEN EdgeFeats(after, edges) ELSE EdgeFeats(before, edges)

NoRecord == [x |-> <<>>, edge_index |-> <<>>, edge_attr |-> <<>>, flow |-> <<>>,
             hop2_nodes |-> <<>>]

\* Whether reading a table of a file raises (a missing or malformed file).
ReadFails(d, file, table) == <<file, table>> \in d.bad

\* Lines 202-268: one pass of the loop over file_list.  hop2_nodes is <<>>
\* for None and <<edges>> once add_2hop_edges has run.
BuildRecord(d, file, a, nrm, prev_hop2) ==
    LET case == d.store[file]
        loaded == LoadNodes(case.nodes, <<>>)
        dm == IF a.add_dist_func THEN make_dist_map(loaded)
              ELSE [err |-> "none", val |-> loaded]
        nodes == dm.val
        hop2 == IF a.hop2 THEN <<add_2hop_edges(case.edges, Len(nodes))>> ELSE prev_hop2
        before == ToFrac(nodes)
        after == IF a.norm_coord THEN NormalizeNodes(nodes, nrm, a.bc_in_nodes_norm)
                 ELSE before
        flow == IF a.norm_flow THEN NormalizeFlow(case.flow, nrm) ELSE ToFrac(case.flow)
    IN IF ReadFails(d, file, "nodes") THEN [err |-> "ReadError", rec |-> NoRecord]
       ELSE IF dm.err # "none" THEN [err |-> dm.err, rec |-> NoRecord]
       ELSE IF ReadFails(d, file, "edges") \/ ReadFails(d, file, "flow")
       THEN [err |-> "ReadError", rec |-> NoRecord]
       ELSE [err |-> "none",
             rec |-> [x |-> after, edge_index |-> case.edges,
                      edge_attr |-> FinalEdgeFeats(before, after, case.edges, a.norm_coord),
                      flow |-> flow, hop2_nodes |-> hop2]]

\* Lines 162-169: the file list, cut to its first num_files entries.
ResolveFileList ==
    /\ pc = "start"
    /\ file_list' = LET listed == IF args.data_source # <<>> THEN args.data_source[1]
                                  ELSE disk.u_in1
                    IN SubSeq(listed, 1, Min2(args.num_files, Len(listed)))
    /\ pc' = "edges"
    /\ UNCHANGED <<args, disk, start, norm, idx, data_list, hop2_nodes, outcome, calls,
                   hopVars, rtVars, dmVars, cnVars>>

\* Lines 171-172.
EnsureEdges ==
    /\ pc = "edges"
    /\ IF EdgesDirName \notin disk.listing
       THEN /\ disk' = [disk EXCEPT !.listing = @ \cup {EdgesDirName}]
            /\ calls' = calls \cup {"generate_edges_dir"}
       ELSE UNCHANGED <<disk, calls>>
    /\ pc' = "params"
    /\ UNCHANGED <<args, start, file_list, norm, idx, data_list, hop2_nodes, outcome,
                   hopVars, rtVars, dmVars, cnVars>>

Cases(d, files) == [i \in 1..Len(files) |-> d.store[files[i]]]

\* Lines 174-195.  On a cache hit the loader's numpy arrays go to torch.sub,
\* which takes tensors only.  Otherwise calc_norm_params reads the nodes and
\* flow tables of every file, and save_norm_params writes the file.
ResolveNormParams ==
    /\ pc = "params"
    /\ IF CacheHit(args.dataset_name, disk.listing)
       THEN LET loaded == get_xyz_and_uvp_mins(disk.norm_text)
            IN /\ calls' = calls \cup {"get_xyz_and_uvp_mins"}
               /\ norm' = [NoNorm EXCEPT !.dom_bound_min = loaded.xy_mins,
                                         !.dom_bound_max = loaded.xy_maxs,
                                         !.flownorm1 = loaded.uvp_mins,
                                         !.flownorm2 = loaded.uvp_maxs]
               /\ pc' = "raised"
               /\ outcome' = [outcome EXCEPT !.error =
                                 IF loaded.err # "none" THEN loaded.err ELSE "TypeError"]
               /\ UNCHANGED disk
       ELSE IF \E i \in 1..Len(file_list) :
                   ReadFails(disk, file_list[i], "nodes") \/ ReadFails(disk, file_list[i], "flow")
       THEN /\ calls' = calls \cup {"calc_norm_params"}
            /\ pc' = "raised"
            /\ outcome' = [outcome EXCEPT !.error = "ReadError"]
            /\ UNCHANGED <<disk, norm>>
       ELSE LET p == calc_norm_params(Cases(disk, file_list))
            IN /\ calls' = calls \cup {"calc_norm_params", "save_norm_params"}
               /\ disk' = [disk EXCEPT
                             !.listing = @ \cup {NormPrmsName(args.dataset_name)},
                             !.norm_text = save_norm_params(2, num_fields,
                                 p.domain_boundaries_min, p.domain_boundaries_max,
                                 p.min_value, p.max_value)]
               /\ norm' = [dom_bound_min |-> p.domain_boundaries_min,
                           dom_bound_max |-> p.domain_boundaries_max,
                           flownorm1 |-> p.min_value,
                           flownorm2 |-> p.max_value,
                           range_xy |-> RangeXy(p.domain_boundaries_min, p.domain_boundaries_max),
                           range_flow |-> RangeFlow(p.min_value, p.max_value)]
               /\ pc' = "loop"
               /\ UNCHANGED outcome
    /\ UNCHANGED <<args, start, file_list, idx, data_list, hop2_nodes,
                   hopVars, rtVars, dmVars, cnVars>>

ProcessCaseResultSkip(r, i, dl, h2) ==
    IF r.err # "none"
    THEN [pc |-> "loop", error |-> "none", idx |-> i + 1, data_list |-> dl, hop2_nodes |-> h2]
    ELSE [pc |-> "loop", error |-> "none", idx |-> i + 1,
          data_list |-> Append(dl, r.rec), hop2_nodes |-> r.rec.hop2_nodes]

\* The loop body has no handler: an exception leaves make_dataset at once,
\* and otherwise the record is appended (lines 263-268).
ProcessCaseResult(r, i, dl, h2) ==
    IF r.err # "none"
    THEN [pc |-> "raised", error |-> r.err, idx |-> i, data_list |-> dl, hop2_nodes |-> h2]
    ELSE [pc |-> "loop", error |-> "none", idx |-> i + 1,
          data_list |-> Append(dl, r.rec), hop2_nodes |-> r.rec.hop2_nodes]

\* Lines 199-268: the next file of file_list.
ProcessCase ==
    /\ pc = "loop"
    /\ idx <= Len(file_list)
    /\ LET r == BuildRecord(disk, file_list[idx], args, norm, hop2_nodes)
           next == ProcessCaseResult(r, idx, data_list, hop2_nodes)
       IN /\ pc' = next.pc
          /\ outcome' = [outcome EXCEPT !.error = next.error]
          /\ idx' = next.idx
          /\ data_list' = next.data_list
          /\ hop2_nodes' = next.hop2_nodes
    /\ UNCHANGED <<args, disk, start, file_list, norm, calls,
                   hopVars, rtVars, dmVars, cnVars>>

\* Lines 270-275: with save, data_list[0] is printed (IndexError on an empty
\* list) and the list is written under dataset_name; then it is returned.
Finish ==
    /\ pc = "loop"
    /\ idx > Len(file_list)
    /\ IF args.save /\ data_list = <<>>
       THEN /\ pc' = "raised"
            /\ outcome' = [outcome EXCEPT !.error = "IndexError"]
            /\ UNCHANGED disk
       ELSE /\ pc' = "returned"
            /\ outcome' = [returned |-> TRUE, data |-> data_list, error |-> "none"]
            /\ IF args.save
               THEN disk' = [disk EXCEPT !.listing = @ \cup {args.dataset_name},
                                         !.dataset = [saved |-> TRUE, data |-> data_list]]
               ELSE UNCHANGED disk
    /\ UNCHANGED <<args, start, file_list, norm, idx, data_list, hop2_nodes, calls,
                   hopVars, rtVars, dmVars, cnVars>>

MkNext == ResolveFileList \/ EnsureEdges \/ ResolveNormParams \/ ProcessCase \/ Finish

-----------------------------------------------------------------------------
(* The calls of make_dataset that are explored.                            *)

MaxFiles == 2
FileNames == {"a", "b"}
DatasetNames == {<<"d", "s", ".", "p", "t">>, <<"d", "s">>}
BaseListing == {NodesDirName, FlowDirName}

FileLists == UNION {[1..n -> FileNames] : n \in 0..MaxFiles}
DirOrders == {o \in [1..2 -> FileNames] : o[1] # o[2]}

\* The parameter file left by an earlier run over other cases.
CachedNormText ==
    save_norm_params(2, num_fields, <<-7, -8>>, <<7, 8>>, <<-9, -9, -9, -9>>, <<9, 9, 9, 9>>)

DefaultStore ==
    [f \in FileNames |-> IF f = "a" THEN CaseOf(-1, 1, 1, 1) ELSE CaseOf(0, 1, -1, -1)]

\* All three nodes at the origin: no extent on either axis.
FlatCase == CaseOf(0, 0, 0, 1)

MkInitWith(a, d) ==
    /\ args = a
    /\ disk = d
    /\ start = [norm_exists |-> NormFileExists(a.dataset_name, d.listing),
                norm_text |-> d.norm_text]
    /\ pc = "start"
    /\ file_list = <<>>
    /\ norm = NoNorm
    /\ idx = 1
    /\ data_list = <<>>
    /\ hop2_nodes = <<>>
    /\ outcome = NoOutcome
    /\ calls = {}

\* Spec: the call's control flow.  The file list, the directory's state and
\* one unreadable table vary; the cases' tables are fixed.
MkInit ==
    \E a \in [num_files : 0..MaxFiles, dataset_name : DatasetNames,
              data_source : {<<>>} \cup {<<l>> : l \in FileLists},
              norm_coord : {TRUE}, norm_flow : {TRUE}, bc_in_nodes_norm : {FALSE},
              save : BOOLEAN, add_dist_func : {TRUE}, hop2 : BOOLEAN],
       order \in DirOrders, hasEdges \in BOOLEAN, hasCache \in BOOLEAN,
       bad \in {{}} \cup {{<<f, t>>} : f \in FileNames, t \in {"nodes", "flow", "edges"}} :
        /\ a.data_source # <<>> => order = <<"a", "b">>
        /\ MkInitWith(a,
              [listing |-> BaseListing
                             \cup (IF hasEdges THEN {EdgesDirName} ELSE {})
                             \cup (IF hasCache THEN {NormPrmsName(a.dataset_name)} ELSE {}),
               u_in1 |-> order,
               store |-> DefaultStore,
               bad |-> bad,
               norm_text |-> IF hasCache THEN CachedNormText ELSE <<>>,
               dataset |-> [saved |-> FALSE, data |-> <<>>]])

Init == MkInit /\ HopIdle /\ RtIdle /\ DmIdle /\ CnIdle

Spec == Init /\ [][MkNext]_vars

\* SpecFeat: the records' contents.  The cases' tables and the feature flags
\* vary; every table is readable.
MkFeatInit ==
    \E a \in [num_files : 1..MaxFiles, dataset_name : {<<"d", "s", ".", "p", "t">>},
              data_source : {<<>>},
              norm_coord : BOOLEAN, norm_flow : BOOLEAN, bc_in_nodes_norm : BOOLEAN,
              save : {FALSE}, add_dist_func : BOOLEAN, hop2 : {TRUE}],
       caseA \in CaseKinds, caseB \in {FlatCase, CaseOf(1, -1, 1, -1)} :
        MkInitWith(a,
              [listing |-> BaseListing \cup {EdgesDirName},
               u_in1 |-> <<"a", "b">>,
               store |-> [f \in FileNames |-> IF f = "a" THEN caseA ELSE caseB],
               bad |-> {},
               norm_text |-> <<>>,
               dataset |-> [saved |-> FALSE, data |-> <<>>]])

InitFeat == MkFeatInit /\ HopIdle /\ RtIdle /\ DmIdle /\ CnIdle

SpecFeat == InitFeat /\ [][MkNext]_vars

-----------------------------------------------------------------------------
(* Properties of make_dataset.                                             *)

AfterParams == pc \in {"loop", "returned"}

\* C1: when the parameter file of the dataset name exists as the call
\* starts, the parameters in use are the ones read from it, neither estimator
\* is called and the file is not overwritten.
C1_CachedParamsReused ==
    (start.norm_exists /\ AfterParams) =>
        /\ calls \cap {"calc_norm_params", "calc_norm_params_avstd", "save_norm_params"} = {}
        /\ disk.norm_text = start.norm_text
        /\ LET loaded == get_xyz_and_uvp_mins(start.norm_text)
           IN /\ norm.dom_bound_min = loaded.xy_mins
              /\ norm.dom_bound_max = loaded.xy_maxs
              /\ norm.flownorm1 = loaded.uvp_mins
              /\ norm.flownorm2 = loaded.uvp_maxs

\* The cells of one column over the flow tables of the file list's cases.
FlowCells(c) ==
    {disk.store[file_list[i]].flow[r][c] :
        i \in 1..Len(file_list), r \in 1..3}

\* The dataset-wide flow bounds: over every case of the file list and the
\* zero the accumulators start from.
DatasetFlowMin == [c \in 1..num_fields |-> SetMin(FlowCells(c) \cup {0})]
DatasetFlowMax == [c \in 1..num_fields |-> SetMax(FlowCells(c) \cup {0})]

\* C5: with norm_flow (and avstd=False) every record's flow is
\* (flow - flow_min) / (flow_max - flow_min) with the dataset-wide vectors,
\* and the parameters stay what was resolved before the first case.
C5_FlowNormalizedDatasetWide ==
    (args.norm_flow /\ pc \in {"loop", "returned", "raised"}) =>
        /\ norm.flownorm1 = DatasetFlowMin
        /\ norm.flownorm2 = DatasetFlowMax
        /\ \A i \in 1..Len(data_list) :
              LET raw == disk.store[file_list[i]].flow
              IN data_list[i].flow =
                    [r \in 1..Len(raw) |-> [c \in 1..num_fields |->
                        <<raw[r][c] - DatasetFlowMin[c],
                          DatasetFlowMax[c] - DatasetFlowMin[c]>>]]

\* Two cases with different flow tables, both normalized, and a column whose
\* dataset-wide maximum is above the first case's own.
C5_Witness ==
    /\ args.norm_flow
    /\ pc = "returned"
    /\ Len(data_list) = 2
    /\ disk.store["a"].flow # disk.store["b"].flow
    /\ DatasetFlowMax[3] > ColMax(disk.store["a"].flow, num_fields)[3]
    /\ data_list[1].flow[1][3] = <<2, 3>>

\* A float value in [0, 1]; a division by zero gives no such value.
InUnit(v) == v[2] > 0 /\ 0 <= v[1] /\ v[1] <= v[2]

RawNodes(i) == LoadNodes(disk.store[file_list[i]].nodes, <<>>)

WithinBounds(i, n, c) ==
    /\ norm.dom_bound_min[c] <= RawNodes(i)[n][c]
    /\ RawNodes(i)[n][c] <= norm.dom_bound_max[c]

\* C6 as stated: with norm_coord, every node whose raw coordinates lie within
\* the recorded bounds has both normalized coordinates in [0, 1].
C6_NormalizedCoordsInUnit ==
    args.norm_coord =>
        \A i \in 1..Len(data_list) : \A n \in 1..Len(data_list[i].x) :
            (WithinBounds(i, n, 1) /\ WithinBounds(i, n, 2)) =>
                (InUnit(data_list[i].x[n][1]) /\ InUnit(data_list[i].x[n][2]))

\* C6 amended: on every axis whose recorded bounds differ (domain_max >
\* domain_min), the normalized coordinate of a node inside the bounds is in
\* [0, 1].
C6_NormalizedCoordsInUnitNonDegenerate ==
    args.norm_coord =>
        \A i \in 1..Len(data_list) : \A n \in 1..Len(data_list[i].x) : \A c \in 1..2 :
            (WithinBounds(i, n, c) /\ norm.dom_bound_max[c] > norm.dom_bound_min[c]) =>
                InUnit(data_list[i].x[n][c])

\* Two records, coordinates on both sides of zero, both axes with extent.
C6_Witness ==
    /\ args.norm_coord
    /\ pc = "returned"
    /\ Len(data_list) = 2
    /\ norm.dom_bound_min[1] < 0 /\ norm.dom_bound_max[1] > 0
    /\ norm.dom_bound_min[2] < 0 /\ norm.dom_bound_max[2] > 0
    /\ \E n \in 1..3 : data_list[1].x[n][1][1] = norm.range_xy[1]

\* A case whose assembly raises: an unreadable table, or make_dist_map.
CaseFails(file) ==
    \/ \E t \in {"nodes", "flow", "edges"} : ReadFails(disk, file, t)
    \/ args.add_dist_func /\ make_dist_map(LoadNodes(disk.store[file].nodes, <<>>)).err # "none"

Listed == IF args.data_source # <<>> THEN args.data_source[1] ELSE disk.u_in1

FirstEntries(list, n) == [i \in 1..(IF n < Len(list) THEN n ELSE Len(list)) |-> list[i]]

\* C7: make_dataset returns one record per case of the file list (the list
\* file or directory listing cut to num_files entries), in order, the i-th
\* from the i-th file's tables, and with save persists that same sequence.
C7_OneRecordPerCaseInOrder ==
    /\ pc = "raised" => \E i \in 1..Len(file_list) : CaseFails(file_list[i])
    /\ pc = "returned" =>
          /\ file_list = FirstEntries(Listed, args.num_files)
          /\ outcome.returned
          /\ Len(outcome.data) = Len(file_list)
          /\ \A i \in 1..Len(file_list) :
                outcome.data[i] =
                    BuildRecord(disk, file_list[i], args, norm,
                                IF i = 1 THEN <<>> ELSE outcome.data[i - 1].hop2_nodes).rec
          /\ args.save => disk.dataset = [saved |-> TRUE, data |-> outcome.data]

FailingCases == {i \in 1..Len(file_list) : CaseFails(file_list[i])}

\* C9: a failure in any one case is fatal to the run: the error reaches the
\* caller, no later case is processed, no list is returned and no dataset is
\* persisted, save or not.
C9_CaseFailureIsFatal ==
    FailingCases # {} =>
        /\ pc # "returned"
        /\ ~outcome.returned /\ outcome.data = <<>>
        /\ ~disk.dataset.saved
        /\ Len(data_list) < SetMin(FailingCases)
        /\ idx <= SetMin(FailingCases)
        /\ pc = "raised" => outcome.error # "none"

\* The second case's edges table is unreadable, with save set: the first
\* case was assembled and the run has raised.
C9_Witness ==
    /\ pc = "raised"
    /\ args.save
    /\ Len(file_list) = 2
    /\ ReadFails(disk, file_list[2], "edges")
    /\ Len(data_list) = 1
    /\ outcome.error = "ReadError"

\* C10: in every record, for every combination of add_dist_func, norm_coord
\* and bc_in_nodes_norm, each edge's feature is the mean of its two endpoint
\* rows of the record's final x.
C10_EdgeFeatsFromFinalX ==
    \A i \in 1..Len(data_list) :
        LET rec == data_list[i]
        IN /\ Len(rec.edge_attr) = Len(rec.edge_index)
           /\ \A e \in 1..Len(rec.edge_index) :
                 LET src == rec.x[rec.edge_index[e][1] + 1]
                     dst == rec.x[rec.edge_index[e][2] + 1]
                 IN rec.edge_attr[e] = [c \in 1..Len(src) |-> Mean2(src[c], dst[c])]

\* A record built with all three options on, whose normalized x differs from
\* the raw node table.
C10_Witness ==
    /\ args.add_dist_func /\ args.norm_coord /\ args.bc_in_nodes_norm
    /\ Len(data_list) >= 1
    /\ Len(data_list[1].x[1]) = 9
    /\ data_list[1].edge_attr # EdgeFeats(ToFrac(make_dist_map(RawNodes(1)).val),
                                          data_list[1].edge_index)

=============================================================================
